---- MODULE Spec2Model ----
(***************************************************************************)
(* Model of the engagement backend's session engagement monitor:          *)
(*   - SessionManager (zoom_integrator/session_manager.py)                *)
(*   - AdaptiveEngine (services/adaptive_engine.py)                       *)
(*   - ZoomEventHandler (zoom_integrator/zoom_events.py)                  *)
(*   - EngagementService / EngagementClassifier                           *)
(* The request handlers are synchronous bodies on one asyncio event loop, *)
(* so each is one atomic action; the monitor tick is a coroutine whose    *)
(* only suspension point is the awaited push callback.                    *)
(***************************************************************************)
EXTENDS Integers, Sequences, FiniteSets, TLC

\* ---------------------------------------------------------------- bounds
MaxLog == 2
MaxClock == 1

\* ------------------------------------------------------ program constants
ACTIVE_LATENCY_MS == 4000
PASSIVE_LATENCY_MS == 7000

\* ------------------------------------------------------------ value sets
None == "None"
SessionIds == {1, 2}
StudentIds == {1, 2}
Rosters == {{}, {1}, {1, 2}}
LoggedSessionIds == {1}
MeetingIds == {"m1"}
Usernames == {"u1", "u2"}
KnownMapping == ("u1" :> 1) @@ ("u2" :> 2)
FetchOutcomes == {"ok", "request_error", "token_error"}
EngagementLevel == {"active", "moderate", "passive"}
SessionStatus == {"pending", "active", "ended"}
Latencies == {ACTIVE_LATENCY_MS - 1, ACTIVE_LATENCY_MS, PASSIVE_LATENCY_MS + 1}
Channels == {"w1", "w2", "w3"}
InstructorIds == {0, 1}
ModelPaths == {"model.h5"}
Contexts == {<<>>, <<{"question_difficulty"}>>}
ResponseTimes ==
    {0, 1, ACTIVE_LATENCY_MS - 1, ACTIVE_LATENCY_MS, ACTIVE_LATENCY_MS + 1,
     PASSIVE_LATENCY_MS - ACTIVE_LATENCY_MS, PASSIVE_LATENCY_MS - 1000,
     PASSIVE_LATENCY_MS - 1, PASSIVE_LATENCY_MS, PASSIVE_LATENCY_MS + 1,
     ACTIVE_LATENCY_MS + PASSIVE_LATENCY_MS}

VARIABLES
    db_sessions,          \* sessions table: id -> [status, zoom_meeting_id, end_time];
                          \* end_time is <<>> (NULL) or <<t>>
    active_sessions,      \* AdaptiveEngine.active_sessions, an insertion-ordered dict
    active_participants,  \* ZoomEventHandler.active_participants: meeting -> usernames
    student_mapping,      \* ZoomEventHandler.student_mapping: username -> student id
    engagement_logs,      \* engagement_logs table, in insertion (id) order
    now,                  \* the clock datetime.utcnow() reads
    db_session_factory,   \* AdaptiveEngine.db_session_factory is set
    question_push_callback, \* AdaptiveEngine.question_push_callback is set
    running,              \* AdaptiveEngine._running
    tick_pc,              \* position of the _monitor_engagement coroutine
    db_open,              \* the tick's database session is open
    snapshot,             \* list(self.active_sessions.items())
    idx,                  \* position of the for loop in snapshot
    evaluated,            \* calls of _identify_students_needing_questions in this tick
    push_calls,           \* calls of question_push_callback in this tick
    tick_error,           \* the exception the tick's except clause caught, or None
    raised,               \* what the last SessionManager call raised to its caller, or None
    websockets,           \* per channel, its endpoint coroutine: position and path parameters
    instructor_active_connections, \* InstructorWebSocketManager.active_connections
    instructor_sessions,  \* InstructorWebSocketManager.instructor_sessions
    student_active_connections, \* StudentWebSocketManager.active_connections
    student_sessions,     \* StudentWebSocketManager.student_sessions, insertion-ordered
    send_json_calls,      \* channels whose send_json the last send or push called
    ws_raised,            \* what the last registry call raised to its caller, or None
    ws_call,              \* the registry method called last: connect, disconnect, send
                          \* (an instructor update), send_question_to_student, ...
    last_push,            \* arguments of the last question_push_callback call: <<>> or <<args>>
    use_ml,               \* EngagementClassifier.use_ml
    ml_model,             \* EngagementClassifier.ml_model: <<>> (None) or <<model>>
    classified,           \* the last classify call and its outcome: <<>> or <<call>>
    query_result,         \* what the last EngagementService query returned: <<>> or <<r>>
    restarted,            \* the last start_session call found its session ACTIVE
    responses             \* the rows of the responses table, in insertion order

vars == <<db_sessions, active_sessions, active_participants, student_mapping,
          engagement_logs, now, db_session_factory, question_push_callback,
          running, tick_pc, db_open, snapshot, idx, evaluated, push_calls,
          tick_error, raised, websockets, instructor_active_connections,
          instructor_sessions, student_active_connections, student_sessions,
          send_json_calls, ws_raised, ws_call, last_push, use_ml, ml_model,
          classified, query_result, restarted, responses>>

engine_vars == <<db_session_factory, question_push_callback, running>>
tick_vars == <<tick_pc, db_open, snapshot, idx, evaluated, push_calls, tick_error>>
instructor_ws_vars == <<instructor_active_connections, instructor_sessions>>
student_ws_vars == <<student_active_connections, student_sessions>>
ws_vars == <<websockets, instructor_ws_vars, student_ws_vars, send_json_calls,
             ws_raised, ws_call, last_push>>
classifier_vars == <<use_ml, ml_model, classified>>

\* A channel whose endpoint has not accepted it yet, or has disconnected it
NewChannel == [pc |-> "new", registry |-> "none", owner |-> 0, session_id |-> 0]
DisconnectedChannel ==
    [pc |-> "disconnected", registry |-> "none", owner |-> 0, session_id |-> 0]

\* ------------------------------------------------------- dict helpers
Keys(d) == {d[i].session_id : i \in 1..Len(d)}

Lookup(d, session_id) ==
    (CHOOSE i \in 1..Len(d) : d[i].session_id = session_id)

RECURSIVE Without(_, _)
Without(d, session_id) ==
    IF d = <<>> THEN <<>>
    ELSE IF Head(d).session_id = session_id THEN Without(Tail(d), session_id)
    ELSE <<Head(d)>> \o Without(Tail(d), session_id)

\* self.active_sessions[session_id] = student_ids: an existing key keeps its
\* place in the dict, a new key goes last.
SetItem(d, session_id, student_ids) ==
    IF session_id \in Keys(d)
    THEN [d EXCEPT ![Lookup(d, session_id)].student_ids = student_ids]
    ELSE Append(d, [session_id |-> session_id, student_ids |-> student_ids])

\* ------------------------------------------------------- AdaptiveEngine
\* mutant: a session that is already monitored keeps its students as well
add_session_merge(d, session_id, student_ids) ==
    IF session_id \in Keys(d)
    THEN SetItem(d, session_id, d[Lookup(d, session_id)].student_ids \cup student_ids)
    ELSE SetItem(d, session_id, student_ids)

add_session(d, session_id, student_ids) == SetItem(d, session_id, student_ids)

\* mutant: the session is not deleted
remove_session_kept(d, session_id) == d

remove_session(d, session_id) ==
    IF session_id \in Keys(d) THEN Without(d, session_id) ELSE d

\* mutant: the roster is stored whether or not the session is monitored
engine_update_session_students_unguarded(d, session_id, student_ids) ==
    SetItem(d, session_id, student_ids)

\* mutant: the fetched ids are added to the roster instead of replacing it
engine_update_session_students_merge(d, session_id, student_ids) ==
    IF session_id \in Keys(d)
    THEN SetItem(d, session_id, d[Lookup(d, session_id)].student_ids \cup student_ids)
    ELSE d

\* mutant: a session that is not monitored is registered by a non-empty roster
engine_update_session_students_register(d, session_id, student_ids) ==
    IF session_id \in Keys(d) \/ student_ids # {}
    THEN SetItem(d, session_id, student_ids)
    ELSE d

engine_update_session_students(d, session_id, student_ids) ==
    IF session_id \in Keys(d) THEN SetItem(d, session_id, student_ids) ELSE d

\* ------------------------------------------------------ ZoomEventHandler
start_monitoring(ap, meeting_id) ==
    [m \in DOMAIN ap \cup {meeting_id} |-> IF m = meeting_id THEN {} ELSE ap[m]]

stop_monitoring(ap, meeting_id) ==
    IF meeting_id \in DOMAIN ap
    THEN [m \in DOMAIN ap \ {meeting_id} |-> ap[m]]
    ELSE ap

\* get_participants' effect on active_participants for the fetched usernames
record_participants(ap, meeting_id, usernames) ==
    IF meeting_id \in DOMAIN ap
    THEN [ap EXCEPT ![meeting_id] = usernames]
    ELSE ap

\* get_student_ids_from_participants: the mapped usernames' student ids
student_ids_of(mapping, usernames) ==
    {mapping[u] : u \in usernames \cap DOMAIN mapping}

\* ------------------------------------------------- EngagementClassifier
classify_with_rules(response_time_ms, is_correct) ==
    IF response_time_ms < ACTIVE_LATENCY_MS /\ is_correct THEN "active"
    ELSE IF response_time_ms > PASSIVE_LATENCY_MS \/ ~is_correct THEN "passive"
    ELSE "moderate"

\* --------------------------------------------------- EngagementService
LogsOf(logs, student_id, session_id) ==
    {i \in 1..Len(logs) : logs[i].student_id = student_id
                          /\ logs[i].session_id = session_id}

\* order_by(timestamp.desc()).first(): a row with the greatest timestamp; the
\* database does not say which one when several rows share it.
current_engagement_results(logs, student_id, session_id) ==
    LET mine == LogsOf(logs, student_id, session_id)
    IN  IF mine = {} THEN {None}
        ELSE {logs[i].engagement_level :
                i \in {j \in mine : \A k \in mine : logs[k].timestamp <= logs[j].timestamp}}


log_engagement_row(student_id, session_id, response_time_ms, is_correct, timestamp) ==
    [student_id |-> student_id, session_id |-> session_id,
     engagement_level |-> classify_with_rules(response_time_ms, is_correct),
     timestamp |-> timestamp]

\* ------------------------------------------------------- delivery policy
\* mutant: ACTIVE students are delivered to as well
should_deliver_question_always(engagement) == TRUE

should_deliver_question(engagement) ==
    IF engagement = None THEN TRUE
    ELSE IF engagement = "passive" THEN TRUE
    ELSE IF engagement = "moderate" THEN TRUE
    ELSE IF engagement = "active" THEN FALSE
    ELSE FALSE

\* mutant: only students without any event are delivered to
identify_students_without_events(student_ids, engagement) ==
    {s \in student_ids : engagement[s] = None}

\* engagement is what get_current_engagement returned for each student of the roster
identify_students_needing_questions(student_ids, engagement) ==
    {s \in student_ids : should_deliver_question(engagement[s])}

\* ----------------------------------------------------------------- Init
Init ==
    /\ db_sessions = <<>>
    /\ active_sessions = <<>>
    /\ active_participants = <<>>
    /\ student_mapping = <<>>
    /\ engagement_logs = <<>>
    /\ now = 0
    /\ db_session_factory = FALSE
    /\ question_push_callback = FALSE
    /\ running = FALSE
    /\ tick_pc = "idle"
    /\ db_open = FALSE
    /\ snapshot = <<>>
    /\ idx = 0
    /\ evaluated = <<>>
    /\ push_calls = <<>>
    /\ tick_error = None
    /\ raised = None
    /\ websockets = [c \in Channels |-> NewChannel]
    /\ instructor_active_connections = <<>>
    /\ instructor_sessions = <<>>
    /\ student_active_connections = <<>>
    /\ student_sessions = <<>>
    /\ send_json_calls = {}
    /\ ws_raised = None
    /\ ws_call = "none"
    /\ last_push = <<>>
    /\ use_ml = FALSE
    /\ ml_model = <<>>
    /\ classified = <<>>
    /\ query_result = <<>>
    /\ restarted = FALSE
    /\ responses = <<>>

\* A request handler runs when the event loop is free: the tick coroutine is
\* not started, or is suspended in the awaited push callback.
LoopFree == tick_pc \in {"idle", "await"}

\* ------------------------------------------------------- SessionManager
create_session(zoom_meeting_id) ==
    /\ LoopFree
    /\ Len(db_sessions) < Cardinality(SessionIds)
    /\ LET id == Len(db_sessions) + 1
       IN  /\ db_sessions' = Append(db_sessions,
                  [status |-> "pending", zoom_meeting_id |-> zoom_meeting_id,
                   end_time |-> <<>>])
           /\ raised' = None
    /\ UNCHANGED <<ws_vars, classifier_vars, query_result, restarted, responses>>
    /\ UNCHANGED <<active_sessions, active_participants, student_mapping,
                   engagement_logs, now, engine_vars, tick_vars>>

\* mutant: the session is handed to the engine before it is looked up
start_session_add_first(session_id, student_ids) ==
    /\ LoopFree
    /\ active_sessions' = add_session(active_sessions, session_id, student_ids)
    /\ IF session_id \notin DOMAIN db_sessions
       THEN /\ raised' = "ValueError"
            /\ UNCHANGED <<db_sessions, active_participants>>
       ELSE /\ db_sessions' = [db_sessions EXCEPT ![session_id].status = "active"]
            /\ active_participants' =
                  IF db_sessions[session_id].zoom_meeting_id # None
                  THEN start_monitoring(active_participants,
                                        db_sessions[session_id].zoom_meeting_id)
                  ELSE active_participants
            /\ raised' = None
    /\ restarted' = (session_id \in DOMAIN db_sessions
                     /\ db_sessions[session_id].status = "active")
    /\ UNCHANGED <<ws_vars, classifier_vars, query_result, responses>>
    /\ UNCHANGED <<student_mapping, engagement_logs, now, engine_vars, tick_vars>>

start_session(session_id, student_ids) ==
    /\ LoopFree
    /\ IF session_id \notin DOMAIN db_sessions
       THEN /\ raised' = "ValueError"
            /\ UNCHANGED <<db_sessions, active_sessions, active_participants>>
       ELSE LET session == db_sessions[session_id]
            IN  /\ db_sessions' = [db_sessions EXCEPT ![session_id].status = "active"]
                /\ active_sessions' = add_session(active_sessions, session_id, student_ids)
                /\ active_participants' =
                      IF session.zoom_meeting_id # None
                      THEN start_monitoring(active_participants, session.zoom_meeting_id)
                      ELSE active_participants
                /\ raised' = None
    /\ restarted' = (session_id \in DOMAIN db_sessions
                     /\ db_sessions[session_id].status = "active")
    /\ UNCHANGED <<ws_vars, classifier_vars, query_result, responses>>
    /\ UNCHANGED <<student_mapping, engagement_logs, now, engine_vars, tick_vars>>

stop_session(session_id) ==
    /\ LoopFree
    /\ IF session_id \notin DOMAIN db_sessions
       THEN /\ raised' = "ValueError"
            /\ UNCHANGED <<db_sessions, active_sessions, active_participants>>
       ELSE LET session == db_sessions[session_id]
            IN  /\ db_sessions' = [db_sessions EXCEPT ![session_id].status = "ended",
                                                      ![session_id].end_time = <<now>>]
                /\ active_sessions' = remove_session(active_sessions, session_id)
                /\ active_participants' =
                      IF session.zoom_meeting_id # None
                      THEN stop_monitoring(active_participants, session.zoom_meeting_id)
                      ELSE active_participants
                /\ raised' = None
    /\ UNCHANGED <<ws_vars, classifier_vars, query_result, restarted, responses>>
    /\ UNCHANGED <<student_mapping, engagement_logs, now, engine_vars, tick_vars>>

\* fetch is how the ZoomAPI request ends: "token_error" (get_access_token
\* raises), "request_error" (get_meeting_participants catches it and returns
\* []), or "ok" with the participants' usernames.
update_session_students(session_id, fetch, participants) ==
    /\ LoopFree
    /\ IF session_id \notin DOMAIN db_sessions
       THEN /\ raised' = None
            /\ UNCHANGED <<active_sessions, active_participants>>
       ELSE IF db_sessions[session_id].zoom_meeting_id = None
       THEN /\ raised' = None
            /\ UNCHANGED <<active_sessions, active_participants>>
       ELSE IF fetch = "token_error"
       THEN /\ raised' = "Exception"
            /\ UNCHANGED <<active_sessions, active_participants>>
       ELSE LET meeting_id == db_sessions[session_id].zoom_meeting_id
                usernames == IF fetch = "request_error" THEN {} ELSE participants
            IN  /\ active_participants' =
                      record_participants(active_participants, meeting_id, usernames)
                /\ active_sessions' =
                      engine_update_session_students(active_sessions, session_id,
                          student_ids_of(student_mapping, usernames))
                /\ raised' = None
    /\ UNCHANGED <<ws_vars, classifier_vars, query_result, restarted, responses>>
    /\ UNCHANGED <<db_sessions, student_mapping, engagement_logs, now,
                   engine_vars, tick_vars>>

set_student_mapping(mapping) ==
    /\ LoopFree
    /\ student_mapping' = mapping
    /\ UNCHANGED <<ws_vars, classifier_vars, query_result, restarted, responses>>
    /\ UNCHANGED <<db_sessions, active_sessions, active_participants,
                   engagement_logs, now, engine_vars, tick_vars, raised>>

\* -------------------------------------------- EngagementService.log_engagement
\* mutant: the student's previous row of the session is overwritten
log_engagement_upsert(student_id, session_id, response_time_ms, is_correct) ==
    /\ LoopFree
    /\ Len(engagement_logs) < MaxLog
    /\ LET row == log_engagement_row(student_id, session_id, response_time_ms,
                                     is_correct, now)
           mine == LogsOf(engagement_logs, student_id, session_id)
       IN  engagement_logs' =
              IF mine = {} THEN Append(engagement_logs, row)
              ELSE [engagement_logs EXCEPT ![CHOOSE i \in mine : TRUE] = row]
    /\ UNCHANGED <<ws_vars, classifier_vars, query_result, restarted, responses>>
    /\ UNCHANGED <<db_sessions, active_sessions, active_participants,
                   student_mapping, now, engine_vars, tick_vars, raised>>

log_engagement(student_id, session_id, response_time_ms, is_correct) ==
    /\ LoopFree
    /\ Len(engagement_logs) < MaxLog
    /\ engagement_logs' = Append(engagement_logs,
          log_engagement_row(student_id, session_id, response_time_ms, is_correct, now))
    /\ UNCHANGED <<ws_vars, classifier_vars, query_result, restarted, responses>>
    /\ UNCHANGED <<db_sessions, active_sessions, active_participants,
                   student_mapping, now, engine_vars, tick_vars, raised>>

\* time passes
Advance ==
    /\ LoopFree
    /\ now < MaxClock
    /\ now' = now + 1
    /\ UNCHANGED <<ws_vars, classifier_vars, query_result, restarted, responses>>
    /\ UNCHANGED <<db_sessions, active_sessions, active_participants,
                   student_mapping, engagement_logs, engine_vars, tick_vars, raised>>


\* ------------------------------------------- AdaptiveEngine life cycle
initialize ==
    /\ LoopFree
    /\ db_session_factory' = TRUE
    /\ question_push_callback' = TRUE
    /\ UNCHANGED <<ws_vars, classifier_vars, query_result, restarted, responses>>
    /\ UNCHANGED <<db_sessions, active_sessions, active_participants, student_mapping,
                   engagement_logs, now, running, tick_vars, raised>>

start ==
    /\ LoopFree
    /\ running' = TRUE
    /\ UNCHANGED <<ws_vars, classifier_vars, query_result, restarted, responses>>
    /\ UNCHANGED <<db_sessions, active_sessions, active_participants, student_mapping,
                   engagement_logs, now, db_session_factory, question_push_callback,
                   tick_vars, raised>>

\* scheduler.shutdown() ends the job's firing; a tick that is suspended at its
\* await either goes on to its end or is cancelled there by the shutdown, in
\* which case only finally: db.close() runs
stop ==
    /\ LoopFree
    /\ running' = FALSE
    /\ \/ UNCHANGED tick_vars
       \/ /\ running
          /\ tick_pc = "await"
          /\ tick_pc' = "done"
          /\ db_open' = FALSE
          /\ tick_error' = "cancelled"
          /\ UNCHANGED <<snapshot, idx, evaluated, push_calls>>
    /\ UNCHANGED <<ws_vars, classifier_vars, query_result, restarted, responses>>
    /\ UNCHANGED <<db_sessions, active_sessions, active_participants, student_mapping,
                   engagement_logs, now, db_session_factory, question_push_callback,
                   raised>>

\* ------------------------------------ AdaptiveEngine._monitor_engagement
sessions_vars == <<db_sessions, active_sessions, active_participants, student_mapping,
                   engagement_logs, now, engine_vars, raised>>
env_vars == <<sessions_vars, ws_vars, classifier_vars, query_result, restarted, responses>>
monitor_vars == <<sessions_vars, tick_vars>>

\* the for loop goes on at position i, or is over: finally closes the session
LoopAt(i, items) ==
    /\ idx' = i
    /\ IF i <= Len(items)
       THEN tick_pc' = "eval" /\ db_open' = TRUE
       ELSE tick_pc' = "done" /\ db_open' = FALSE

\* mutant: the except clause without the finally: the session stays open
Caught_without_finally(e) ==
    /\ tick_error' = e
    /\ tick_pc' = "done"
    /\ UNCHANGED db_open

\* except Exception: log; finally: db.close()
Caught(e) ==
    /\ tick_error' = e
    /\ tick_pc' = "done"
    /\ db_open' = FALSE

\* mutant: the job fires whether or not the scheduler is running
TickStart_after_shutdown ==
    /\ tick_pc = "idle"
    /\ IF ~db_session_factory \/ ~question_push_callback
       THEN UNCHANGED tick_vars
       ELSE /\ snapshot' = active_sessions
            /\ evaluated' = <<>>
            /\ push_calls' = <<>>
            /\ tick_error' = None
            /\ LoopAt(1, active_sessions)
    /\ UNCHANGED env_vars

\* the scheduler fires the job; an engine that is not initialized returns at once
TickStart ==
    /\ tick_pc = "idle"
    /\ running
    /\ IF ~db_session_factory \/ ~question_push_callback
       THEN UNCHANGED tick_vars
       ELSE /\ snapshot' = active_sessions
            /\ evaluated' = <<>>
            /\ push_calls' = <<>>
            /\ tick_error' = None
            /\ LoopAt(1, active_sessions)
    /\ UNCHANGED env_vars

\* the tiers get_current_engagement may return for the students of a roster
EngagementReads(logs, session_id, student_ids) ==
    {e \in [student_ids -> EngagementLevel \cup {None}] :
        \A s \in student_ids : e[s] \in current_engagement_results(logs, s, session_id)}

\* mutant: the loop reads the live dict instead of the list made at tick start
loop_item_live(i) ==
    IF i <= Len(active_sessions) THEN active_sessions[i] ELSE snapshot[i]

\* the pair the for loop is at: an element of the list made at tick start
loop_item(i) == snapshot[i]

\* one iteration of the for loop, up to the await or to the next iteration
EvalSession ==
    /\ tick_pc = "eval"
    /\ LET session_id == loop_item(idx).session_id
           student_ids == loop_item(idx).student_ids
       IN  \E engagement \in EngagementReads(engagement_logs, session_id, student_ids) :
             LET students_needing_questions ==
                     identify_students_needing_questions(student_ids, engagement)
             IN  /\ evaluated' = Append(evaluated,
                        [session_id |-> session_id, student_ids |-> student_ids,
                         engagement |-> engagement,
                         students_needing_questions |-> students_needing_questions])
                 /\ IF students_needing_questions # {}
                    THEN /\ push_calls' = Append(push_calls,
                                [session_id |-> session_id,
                                 student_ids |-> students_needing_questions])
                         /\ tick_pc' = "await"
                         /\ UNCHANGED <<idx, db_open>>
                    ELSE /\ LoopAt(idx + 1, snapshot)
                         /\ UNCHANGED push_calls
    /\ UNCHANGED <<snapshot, tick_error, env_vars>>

\* get_current_engagement raises (the store cannot be read)
EvalSessionStoreError ==
    /\ tick_pc = "eval"
    /\ loop_item(idx).student_ids # {}
    /\ Caught("store_error")
    /\ UNCHANGED <<snapshot, idx, evaluated, push_calls, env_vars>>

\* the awaited push callback returns
CallbackReturns ==
    /\ tick_pc = "await"
    /\ LoopAt(idx + 1, snapshot)
    /\ UNCHANGED <<snapshot, evaluated, push_calls, tick_error, env_vars>>

\* the awaited push callback raises
CallbackRaises ==
    /\ tick_pc = "await"
    /\ Caught("callback_error")
    /\ UNCHANGED <<snapshot, idx, evaluated, push_calls, env_vars>>

\* the coroutine returns
TickReturn ==
    /\ tick_pc = "done"
    /\ tick_pc' = "idle"
    /\ snapshot' = <<>>
    /\ idx' = 0
    /\ evaluated' = <<>>
    /\ push_calls' = <<>>
    /\ tick_error' = None
    /\ UNCHANGED <<db_open, env_vars>>

\* ----------------------------------------------------------------- Next
\* The monitor with the session life cycle and the engagement log around it.
Next ==
    \/ \E z \in MeetingIds : create_session(z)
    \/ \E sid \in SessionIds, st \in Rosters : start_session(sid, st)
    \/ \E sid \in SessionIds : update_session_students(sid, "ok", {})
    \/ \E sid \in SessionIds : stop_session(sid)
    \/ \E s \in StudentIds, sid \in LoggedSessionIds, l \in Latencies, c \in BOOLEAN :
          log_engagement(s, sid, l, c)
    \/ initialize
    \/ start
    \/ TickStart
    \/ EvalSession
    \/ EvalSessionStoreError
    \/ CallbackReturns
    \/ CallbackRaises
    \/ TickReturn

Spec == Init /\ [][Next]_vars

\* The session life cycle alone: SessionManager's calls, the roster source and
\* the clock.
NextSessions ==
    \/ \E z \in MeetingIds \cup {None} : create_session(z)
    \/ \E sid \in SessionIds, st \in SUBSET StudentIds : start_session(sid, st)
    \/ \E sid \in SessionIds : stop_session(sid)
    \/ \E sid \in SessionIds, f \in FetchOutcomes, us \in SUBSET Usernames :
          update_session_students(sid, f, us)
    \/ \E m \in {<<>>, KnownMapping} : set_student_mapping(m)
    \/ Advance

SpecSessions == Init /\ [][NextSessions]_vars

\* ------------------------------------------------- WebSocket endpoints
\* Each channel is served by one endpoint coroutine (api/sessions.py
\* session_websocket, api/students.py student_websocket): it awaits the
\* registry's connect, then receives until the client goes away, then calls
\* the registry's disconnect.  websockets[c].pc is "new" before accept,
\* "connected" while receiving, "closed" once the client is gone and
\* "disconnected" after disconnect.  websocket.accept() raises RuntimeError on
\* a channel that was accepted before, so a channel is registered at most once.

\* d[key].add(websocket), with d[key] = set() first when key is no key of d
SetAdd(d, key, websocket) ==
    [k \in DOMAIN d \cup {key} |->
        IF k = key
        THEN (IF key \in DOMAIN d THEN d[key] ELSE {}) \cup {websocket}
        ELSE d[k]]

\* d[websocket] = owner
Put(d, websocket, owner) ==
    [w \in DOMAIN d \cup {websocket} |-> IF w = websocket THEN owner ELSE d[w]]

\* del d[websocket]
Del(d, websocket) == [w \in DOMAIN d \ {websocket} |-> d[w]]

\* the endpoint's position after it called disconnect of the registry it
\* connected to
AfterDisconnect(ws, websocket, registry) ==
    IF ws[websocket].registry = registry
    THEN [ws EXCEPT ![websocket] = DisconnectedChannel]
    ELSE ws

\* the client goes away: receive raises WebSocketDisconnect in the endpoint
client_close(websocket) ==
    /\ websockets[websocket].pc = "connected"
    /\ websockets' = [websockets EXCEPT ![websocket].pc = "closed"]
    /\ UNCHANGED <<instructor_ws_vars, student_ws_vars, send_json_calls,
                   ws_raised, last_push>>
    /\ UNCHANGED <<monitor_vars, classifier_vars, query_result, restarted, responses, ws_call>>

\* -------------------------------------------- InstructorWebSocketManager
instructor_connect(websocket, instructor_id) ==
    /\ IF websockets[websocket].pc # "new"
       THEN /\ ws_raised' = "RuntimeError"
            /\ UNCHANGED <<websockets, instructor_ws_vars>>
       ELSE /\ websockets' = [websockets EXCEPT ![websocket] =
                  [pc |-> "connected", registry |-> "instructor",
                   owner |-> instructor_id, session_id |-> 0]]
            /\ instructor_active_connections' =
                  SetAdd(instructor_active_connections, instructor_id, websocket)
            /\ instructor_sessions' = Put(instructor_sessions, websocket, instructor_id)
            /\ ws_raised' = None
    /\ UNCHANGED <<student_ws_vars, send_json_calls, last_push>>
    /\ ws_call' = "connect"
    /\ UNCHANGED <<monitor_vars, classifier_vars, query_result, restarted, responses>>

\* mutant: the channel is removed from its owner's set without looking it up
instructor_disconnect_unchecked(websocket) ==
    /\ IF \E i \in DOMAIN instructor_active_connections :
             websocket \in instructor_active_connections[i]
       THEN /\ instructor_active_connections' =
                  [i \in DOMAIN instructor_active_connections |->
                      instructor_active_connections[i] \ {websocket}]
            /\ instructor_sessions' = Del(instructor_sessions, websocket)
            /\ websockets' = AfterDisconnect(websockets, websocket, "instructor")
            /\ ws_raised' = None
       ELSE /\ ws_raised' = "KeyError"
            /\ UNCHANGED <<websockets, instructor_ws_vars>>
    /\ UNCHANGED <<student_ws_vars, send_json_calls, last_push>>
    /\ ws_call' = "disconnect"
    /\ UNCHANGED <<monitor_vars, classifier_vars, query_result, restarted, responses>>

\* `if instructor_id and instructor_id in self.active_connections` is false
\* for an unrecorded channel (None) and for instructor id 0; set.remove raises
\* KeyError when the channel is not in the set.
instructor_disconnect(websocket) ==
    /\ LET recorded == websocket \in DOMAIN instructor_sessions
           instructor_id == instructor_sessions[websocket]
       IN  IF /\ recorded
              /\ instructor_id # 0
              /\ instructor_id \in DOMAIN instructor_active_connections
           THEN IF websocket \in instructor_active_connections[instructor_id]
                THEN /\ instructor_active_connections' =
                           [instructor_active_connections EXCEPT
                               ![instructor_id] = @ \ {websocket}]
                     /\ instructor_sessions' = Del(instructor_sessions, websocket)
                     /\ websockets' = AfterDisconnect(websockets, websocket, "instructor")
                     /\ ws_raised' = None
                ELSE /\ ws_raised' = "KeyError"
                     /\ UNCHANGED <<websockets, instructor_ws_vars>>
           ELSE /\ instructor_sessions' = Del(instructor_sessions, websocket)
                /\ websockets' = AfterDisconnect(websockets, websocket, "instructor")
                /\ ws_raised' = None
                /\ UNCHANGED instructor_active_connections
    /\ UNCHANGED <<student_ws_vars, send_json_calls, last_push>>
    /\ ws_call' = "disconnect"
    /\ UNCHANGED <<monitor_vars, classifier_vars, query_result, restarted, responses>>

\* the channels the fan-out loop calls send_json on: the owner's set as it is
\* when the loop starts (list(...)); each call is in its own try
instructor_fan_out(ac, instructor_id) ==
    IF instructor_id \in DOMAIN ac THEN ac[instructor_id] ELSE {}

send_dashboard_update(instructor_id) ==
    /\ send_json_calls' = instructor_fan_out(instructor_active_connections, instructor_id)
    /\ ws_raised' = None
    /\ UNCHANGED <<websockets, instructor_ws_vars, student_ws_vars, last_push>>
    /\ ws_call' = "send"
    /\ UNCHANGED <<monitor_vars, classifier_vars, query_result, restarted, responses>>

send_engagement_update(instructor_id) ==
    /\ send_json_calls' = instructor_fan_out(instructor_active_connections, instructor_id)
    /\ ws_raised' = None
    /\ UNCHANGED <<websockets, instructor_ws_vars, student_ws_vars, last_push>>
    /\ ws_call' = "send"
    /\ UNCHANGED <<monitor_vars, classifier_vars, query_result, restarted, responses>>

\* ---------------------------------------------- StudentWebSocketManager
student_connect(websocket, session_id, student_id) ==
    /\ IF websockets[websocket].pc # "new"
       THEN /\ ws_raised' = "RuntimeError"
            /\ UNCHANGED <<websockets, student_ws_vars>>
       ELSE /\ websockets' = [websockets EXCEPT ![websocket] =
                  [pc |-> "connected", registry |-> "student",
                   owner |-> student_id, session_id |-> session_id]]
            /\ student_active_connections' =
                  SetAdd(student_active_connections, session_id, websocket)
            /\ student_sessions' =
                  Append(student_sessions,
                         [websocket |-> websocket, student_id |-> student_id])
            /\ ws_raised' = None
    /\ UNCHANGED <<instructor_ws_vars, send_json_calls, last_push>>
    /\ ws_call' = "connect"
    /\ UNCHANGED <<monitor_vars, classifier_vars, query_result, restarted, responses>>

\* del self.student_sessions[websocket], when it is a key
DelSession(sessions, websocket) ==
    SelectSeq(sessions, LAMBDA e : e.websocket # websocket)

\* The loop removes the channel from the first session set that holds it and
\* breaks; which set is first is the dict's order, left open here.
student_disconnect(websocket) ==
    /\ LET holders == {s \in DOMAIN student_active_connections :
                          websocket \in student_active_connections[s]}
       IN  IF holders = {}
           THEN UNCHANGED student_active_connections
           ELSE \E s \in holders :
                   student_active_connections' =
                       [student_active_connections EXCEPT ![s] = @ \ {websocket}]
    /\ student_sessions' = DelSession(student_sessions, websocket)
    /\ websockets' = AfterDisconnect(websockets, websocket, "student")
    /\ ws_raised' = None
    /\ UNCHANGED <<instructor_ws_vars, send_json_calls, last_push>>
    /\ ws_call' = "disconnect"
    /\ UNCHANGED <<monitor_vars, classifier_vars, query_result, restarted, responses>>

\* mutant: the student's first channel, whatever session it connected to
target_websocket_any_session(ac, sessions, session_id, student_id) ==
    LET matches == {i \in 1..Len(sessions) : sessions[i].student_id = student_id}
    IN  IF matches = {} THEN {}
        ELSE {sessions[CHOOSE i \in matches : \A j \in matches : i <= j].websocket}

\* The channel send_question_to_student picks: the first entry of
\* student_sessions, in insertion order, that is the student's and is in the
\* session's set; none when there is no such entry.  The result is the set of
\* channels send_json is called on (the call is inside a try).
target_websocket(ac, sessions, session_id, student_id) ==
    IF session_id \notin DOMAIN ac THEN {}
    ELSE LET matches == {i \in 1..Len(sessions) :
                            /\ sessions[i].student_id = student_id
                            /\ sessions[i].websocket \in ac[session_id]}
         IN  IF matches = {} THEN {}
             ELSE {sessions[CHOOSE i \in matches : \A j \in matches : i <= j].websocket}

send_question_to_student(session_id, student_id) ==
    /\ send_json_calls' =
          target_websocket(student_active_connections, student_sessions,
                           session_id, student_id)
    /\ ws_raised' = None
    /\ UNCHANGED <<websockets, instructor_ws_vars, student_ws_vars, last_push>>
    /\ ws_call' = "send_question_to_student"
    /\ UNCHANGED <<monitor_vars, classifier_vars, query_result, restarted, responses>>

\* mutant: a student without a channel makes the push raise before any send
send_question_to_multiple_students_strict(session_id, student_ids) ==
    /\ IF \E s \in student_ids :
             target_websocket(student_active_connections, student_sessions,
                              session_id, s) = {}
       THEN /\ send_json_calls' = {}
            /\ ws_raised' = "KeyError"
       ELSE /\ send_json_calls' =
                  UNION {target_websocket(student_active_connections, student_sessions,
                                          session_id, s) : s \in student_ids}
            /\ ws_raised' = None
    /\ UNCHANGED <<websockets, instructor_ws_vars, student_ws_vars, last_push>>
    /\ ws_call' = "send_question_to_multiple_students"
    /\ UNCHANGED <<monitor_vars, classifier_vars, query_result, restarted, responses>>

\* one send_question_to_student per student id of the push
send_question_to_multiple_students(session_id, student_ids) ==
    /\ send_json_calls' =
          UNION {target_websocket(student_active_connections, student_sessions,
                                  session_id, s) : s \in student_ids}
    /\ ws_raised' = None
    /\ UNCHANGED <<websockets, instructor_ws_vars, student_ws_vars, last_push>>
    /\ ws_call' = "send_question_to_multiple_students"
    /\ UNCHANGED <<monitor_vars, classifier_vars, query_result, restarted, responses>>

\* mutant: every recorded student, whatever the session
get_connected_students_any_session(ac, sessions, session_id) ==
    {sessions[i].student_id : i \in 1..Len(sessions)}

get_connected_students(ac, sessions, session_id) ==
    IF session_id \notin DOMAIN ac THEN {}
    ELSE {sessions[i].student_id :
             i \in {j \in 1..Len(sessions) : sessions[j].websocket \in ac[session_id]}}

\* ------------------------------------------------------ main.py lifespan
\* The push callback the engine is initialized with: it obtains the student
\* registry and logs the push; it calls no send.
lifespan_question_push_callback(session_id, student_ids) ==
    /\ last_push' = <<[session_id |-> session_id, student_ids |-> student_ids]>>
    /\ send_json_calls' = {}
    /\ ws_raised' = None
    /\ UNCHANGED <<websockets, instructor_ws_vars, student_ws_vars>>
    /\ ws_call' = "push"
    /\ UNCHANGED <<monitor_vars, classifier_vars, query_result, restarted, responses>>

NextRegistry ==
    \/ \E w \in Channels, i \in InstructorIds : instructor_connect(w, i)
    \/ \E w \in Channels, sid \in SessionIds, s \in StudentIds : student_connect(w, sid, s)
    \/ \E w \in Channels : client_close(w)
    \/ \E w \in Channels : instructor_disconnect(w)
    \/ \E w \in Channels : student_disconnect(w)
    \/ \E i \in InstructorIds : send_dashboard_update(i)
    \/ \E i \in InstructorIds : send_engagement_update(i)
    \/ \E sid \in SessionIds, s \in StudentIds : send_question_to_student(sid, s)
    \/ \E sid \in SessionIds, st \in {t \in SUBSET StudentIds : Cardinality(t) > 1} :
          send_question_to_multiple_students(sid, st)

\* The two connection registries and the endpoints that use them
SpecRegistry == Init /\ [][NextRegistry]_vars

NextDispatch ==
    \/ \E w \in Channels, sid \in SessionIds, s \in StudentIds : student_connect(w, sid, s)
    \/ \E w \in Channels : client_close(w)
    \/ \E w \in Channels : student_disconnect(w)
    \/ \E sid \in SessionIds, st \in (SUBSET StudentIds) \ {{}} :
          lifespan_question_push_callback(sid, st)

\* The student registry and the push callback the engine calls
SpecDispatch == Init /\ [][NextDispatch]_vars

\* ------------------------------------------------- EngagementClassifier
\* An optional value is <<>> (None) or <<v>>.

\* mutant: the model counts as loaded once a path is given
load_model_loaded(model_path) ==
    [model_path |-> model_path, is_loaded |-> TRUE, model |-> <<>>]

\* EngagementClassifierModel(model_path) for a non-empty path: __init__ calls
\* load_model, a placeholder that loads nothing and leaves is_loaded False
load_model(model_path) ==
    [model_path |-> model_path, is_loaded |-> FALSE, model |-> <<>>]

\* EngagementClassifierModel.predict: raises unless a model is loaded; its
\* body is `pass`, so a call that does not raise returns None
predict(m) ==
    IF ~m.is_loaded \/ m.model = <<>>
    THEN [raised |-> "RuntimeError", prediction |-> None]
    ELSE [raised |-> None, prediction |-> None]

\* _classify_with_ml: **additional_context raises TypeError for None; then
\* predict; then prediction.upper() on what predict returned
classify_with_ml(m, response_time_ms, is_correct, additional_context) ==
    IF additional_context = <<>>
    THEN [raised |-> "TypeError", level |-> None]
    ELSE IF predict(m).raised # None
    THEN [raised |-> predict(m).raised, level |-> None]
    ELSE [raised |-> "AttributeError", level |-> None]

\* mutant: ACTIVE up to and including the threshold
classify_boundary_inclusive(u, m, response_time_ms, is_correct, additional_context) ==
    [raised |-> None,
     level |-> IF response_time_ms <= ACTIVE_LATENCY_MS /\ is_correct THEN "active"
               ELSE IF response_time_ms > PASSIVE_LATENCY_MS \/ ~is_correct THEN "passive"
               ELSE "moderate"]

\* EngagementClassifier.classify of a classifier with fields use_ml = u and
\* ml_model = m: what it raises, or the tier it returns
classify_outcome(u, m, response_time_ms, is_correct, additional_context) ==
    IF u /\ m # <<>> /\ m[1].is_loaded
    THEN classify_with_ml(m[1], response_time_ms, is_correct, additional_context)
    ELSE [raised |-> None, level |-> classify_with_rules(response_time_ms, is_correct)]

\* create_classifier(use_ml, model_path) = EngagementClassifier(use_ml, model_path)
create_classifier(use_ml_model, model_path) ==
    /\ use_ml' = use_ml_model
    /\ ml_model' = IF use_ml_model /\ model_path # <<>>
                   THEN <<load_model(model_path[1])>>
                   ELSE <<>>
    /\ UNCHANGED <<classified, monitor_vars, ws_vars, query_result, restarted, responses>>

classify(response_time_ms, is_correct, additional_context) ==
    /\ classified' =
          <<[response_time_ms |-> response_time_ms,
             is_correct |-> is_correct,
             additional_context |-> additional_context,
             outcome |-> classify_outcome(use_ml, ml_model, response_time_ms,
                                          is_correct, additional_context)]>>
    /\ UNCHANGED <<use_ml, ml_model, monitor_vars, ws_vars, query_result, restarted, responses>>

NextClassifier ==
    \/ \E u \in BOOLEAN, p \in {<<>>} \cup {<<q>> : q \in ModelPaths} :
          create_classifier(u, p)
    \/ \E r \in ResponseTimes, c \in BOOLEAN, a \in Contexts : classify(r, c, a)

\* The classifier in each configuration it can be constructed in, applied to
\* response times around both thresholds
SpecClassifier == Init /\ [][NextClassifier]_vars

\* --------------------------------------------- EngagementService queries
get_current_engagement(student_id, session_id) ==
    /\ LoopFree
    /\ \E r \in current_engagement_results(engagement_logs, student_id, session_id) :
          query_result' = <<[query |-> "get_current_engagement",
                             engagement_level |-> r, stats |-> <<>>]>>
    /\ UNCHANGED <<monitor_vars, ws_vars, classifier_vars, restarted, responses>>

\* list(set(log.student_id for log in logs)) of the session's rows
session_student_ids(logs, session_id) ==
    {logs[i].student_id : i \in {j \in 1..Len(logs) : logs[j].session_id = session_id}}

\* the stats dict computed from student_engagement (student id -> latest tier)
engagement_stats(student_engagement) ==
    [total_students |-> Cardinality(DOMAIN student_engagement),
     active_students |->
        Cardinality({s \in DOMAIN student_engagement : student_engagement[s] = "active"}),
     moderate_students |->
        Cardinality({s \in DOMAIN student_engagement : student_engagement[s] = "moderate"}),
     passive_students |->
        Cardinality({s \in DOMAIN student_engagement : student_engagement[s] = "passive"})]

\* one order_by(timestamp.desc()).first() query per student of the session
get_session_engagement_stats(session_id) ==
    /\ LoopFree
    /\ \E student_engagement \in
             EngagementReads(engagement_logs, session_id,
                             session_student_ids(engagement_logs, session_id)) :
          query_result' = <<[query |-> "get_session_engagement_stats",
                             engagement_level |-> None,
                             stats |-> <<engagement_stats(student_engagement)>>]>>
    /\ UNCHANGED <<monitor_vars, ws_vars, classifier_vars, restarted, responses>>

NextStore ==
    \/ \E s \in StudentIds, sid \in SessionIds, l \in Latencies, c \in BOOLEAN :
          log_engagement(s, sid, l, c)
    \/ Advance
    \/ \E s \in StudentIds, sid \in SessionIds : get_current_engagement(s, sid)
    \/ \E sid \in SessionIds : get_session_engagement_stats(sid)

\* The engagement log with its writer, its two queries and the clock
SpecStore == Init /\ [][NextStore]_vars


\* The monitor and the session life cycle without the engagement log: the
\* scheduler fires the job every interval and the event loop runs the tick's
\* code up to each await; when, and whether, an awaited push callback comes
\* back is up to the callback.
NextTicks ==
    \/ \E z \in MeetingIds : create_session(z)
    \/ \E sid \in SessionIds, st \in Rosters : start_session(sid, st)
    \/ \E sid \in SessionIds : stop_session(sid)
    \/ initialize
    \/ start
    \/ TickStart
    \/ EvalSession
    \/ EvalSessionStoreError
    \/ CallbackReturns
    \/ CallbackRaises
    \/ TickReturn

SpecTicksFair ==
    /\ Init
    /\ [][NextTicks]_vars
    /\ WF_vars(TickStart)
    /\ WF_vars(EvalSession \/ EvalSessionStoreError)
    /\ WF_vars(TickReturn)

\* The same, with every awaited push callback coming back in the end, by
\* returning or by raising.
SpecTicksReturning ==
    /\ SpecTicksFair
    /\ WF_vars(CallbackReturns \/ CallbackRaises)

\* ------------------------------------------------ api/responses.py
\* is_correct is the outcome of comparing the answer with the question's
\* correct answer. failure is where the request fails, if it does: the
\* question is not found; the commit of the response raises; or
\* log_engagement raises after the response was committed.
SubmitFailures == {"none", "question_not_found", "response_commit", "log_engagement"}

\* mutant: the response and its engagement event are stored by one commit
submit_response_one_commit(student_id, session_id, response_time_ms, is_correct, failure) ==
    /\ LoopFree
    /\ Len(responses) < MaxLog
    /\ Len(engagement_logs) < MaxLog
    /\ IF failure = "none"
       THEN /\ responses' = Append(responses,
                  [student_id |-> student_id, session_id |-> session_id,
                   response_time_ms |-> response_time_ms, is_correct |-> is_correct])
            /\ engagement_logs' = Append(engagement_logs,
                  log_engagement_row(student_id, session_id, response_time_ms,
                                     is_correct, now))
            /\ raised' = None
       ELSE /\ raised' = "HTTPException"
            /\ UNCHANGED <<responses, engagement_logs>>
    /\ UNCHANGED <<ws_vars, classifier_vars, query_result, restarted>>
    /\ UNCHANGED <<db_sessions, active_sessions, active_participants,
                   student_mapping, now, engine_vars, tick_vars>>

submit_response(student_id, session_id, response_time_ms, is_correct, failure) ==
    /\ LoopFree
    /\ Len(responses) < MaxLog
    /\ Len(engagement_logs) < MaxLog
    /\ IF failure \in {"question_not_found", "response_commit"}
       THEN /\ raised' = "HTTPException"
            /\ UNCHANGED <<responses, engagement_logs>>
       ELSE /\ responses' = Append(responses,
                  [student_id |-> student_id, session_id |-> session_id,
                   response_time_ms |-> response_time_ms, is_correct |-> is_correct])
            /\ IF failure = "log_engagement"
               THEN /\ raised' = "HTTPException"
                    /\ UNCHANGED engagement_logs
               ELSE /\ engagement_logs' = Append(engagement_logs,
                          log_engagement_row(student_id, session_id,
                                             response_time_ms, is_correct, now))
                    /\ raised' = None
    /\ UNCHANGED <<ws_vars, classifier_vars, query_result, restarted>>
    /\ UNCHANGED <<db_sessions, active_sessions, active_participants,
                   student_mapping, now, engine_vars, tick_vars>>

\* Response submission, the only writer of engagement events here, and the clock
NextResponses ==
    \/ \E s \in StudentIds, sid \in SessionIds, l \in Latencies, c \in BOOLEAN,
          f \in SubmitFailures : submit_response(s, sid, l, c, f)
    \/ Advance

SpecResponses == Init /\ [][NextResponses]_vars

\* The engine from start to stop, with a student channel that connects while
\* ticks run.
NextLifecycle ==
    \/ \E z \in MeetingIds : create_session(z)
    \/ \E sid \in SessionIds : start_session(sid, {1})
    \/ \E sid \in SessionIds : stop_session(sid)
    \/ student_connect("w1", 1, 1)
    \/ initialize
    \/ start
    \/ stop
    \/ TickStart
    \/ EvalSession
    \/ EvalSessionStoreError
    \/ CallbackReturns
    \/ CallbackRaises
    \/ TickReturn

SpecLifecycle == Init /\ [][NextLifecycle]_vars

\* ============================================================= properties
Status(session_id) == db_sessions[session_id].status

Ended == {sid \in DOMAIN db_sessions : Status(sid) = "ended"}

PushCount(session_id) ==
    Cardinality({i \in 1..Len(push_calls) : push_calls[i].session_id = session_id})

EvaluationsOf(session_id) ==
    {i \in 1..Len(evaluated) : evaluated[i].session_id = session_id}

\* a step in which _identify_students_needing_questions returns
Evaluates == Len(evaluated') = Len(evaluated) + 1

TickStarts == tick_pc = "idle" /\ tick_pc' # "idle"

StoreFailedAt(i) == tick_error = "store_error" /\ i = idx

\* the delivery set of the session at position i of the snapshot: the one the
\* tick computed, or for a session the tick did not come to, the students of
\* its roster whose current tier is absent, PASSIVE or MODERATE
DeliverySet(i) ==
    LET sid == snapshot[i].session_id
    IN  IF EvaluationsOf(sid) # {}
        THEN evaluated[CHOOSE j \in EvaluationsOf(sid) : TRUE].students_needing_questions
        ELSE {s \in snapshot[i].student_ids :
                "active" \notin current_engagement_results(engagement_logs, s, sid)}

\* C2: at the end of every tick, for every session of the snapshot (but one
\* whose store read failed, which has no delivery set), the push callback was
\* invoked once if the session's delivery set is non-empty and not at all if
\* it is empty.
C2_ExactlyOncePerSession ==
    tick_pc = "done" =>
        \A i \in 1..Len(snapshot) :
            ~StoreFailedAt(i) =>
                PushCount(snapshot[i].session_id) =
                    IF DeliverySet(i) # {} THEN 1 ELSE 0

\* C3: when the evaluation or the dispatch of one session raised during a
\* tick, every other session of the snapshot (with a student in its roster)
\* has been evaluated by the end of the tick, and dispatched when its delivery
\* set is non-empty.
C3_ErrorIsolation ==
    (tick_pc = "done" /\ tick_error # None) =>
        \A i \in 1..Len(snapshot) :
            (i # idx /\ snapshot[i].student_ids # {}) =>
                /\ EvaluationsOf(snapshot[i].session_id) # {}
                /\ DeliverySet(i) # {} => PushCount(snapshot[i].session_id) = 1

C5_RemovedNeverEvaluated ==
    [][/\ TickStarts => Keys(snapshot') \cap Ended = {}
       /\ \A i \in 1..Len(evaluated') : evaluated'[i].session_id \in Keys(snapshot')
       /\ \A i \in 1..Len(push_calls') : push_calls'[i].session_id \in Keys(snapshot')
    ]_vars

\* C5 witness: session 1 is ENDED and no key of the active map, and a tick has
\* run to its end over a list without it, dispatching session 2 alone.
C5_Witness ==
    /\ tick_pc = "done"
    /\ 1 \in Ended
    /\ Keys(snapshot) = {2}
    /\ PushCount(2) = 1
    /\ PushCount(1) = 0
    /\ 1 \notin Keys(active_sessions)

\* C6: between SessionManager calls, a session id is a key of active_sessions
\* iff the session exists with status ACTIVE.
C6_ActiveIffStatusActive ==
    \A sid \in SessionIds :
        sid \in Keys(active_sessions)
            <=> (sid \in DOMAIN db_sessions /\ Status(sid) = "active")

\* C6 witness: session 1 was stopped and is no key, session 2 is ACTIVE and a key
C6_Witness ==
    /\ DOMAIN db_sessions = {1, 2}
    /\ Status(1) = "ended" /\ 1 \notin Keys(active_sessions)
    /\ Status(2) = "active" /\ 2 \in Keys(active_sessions)

StatusRank(status) ==
    IF status = "pending" THEN 0 ELSE IF status = "active" THEN 1 ELSE 2

\* C7: no session's status ever moves backwards along PENDING, ACTIVE, ENDED
C7_StatusMonotonic ==
    [][\A sid \in DOMAIN db_sessions :
          StatusRank(db_sessions'[sid].status) >= StatusRank(Status(sid))]_vars

\* C8: start_session on an ENDED session raises InvalidTransition and changes
\* neither the session records, the active map nor the monitored meetings.
C8_StartEndedFails ==
    [][\A sid \in DOMAIN db_sessions, st \in SUBSET StudentIds :
          (Status(sid) = "ended" /\ start_session(sid, st)) =>
              /\ raised' = "InvalidTransition"
              /\ UNCHANGED <<db_sessions, active_sessions, active_participants>>]_vars

\* C9: stop_session on an ENDED session raises nothing and changes neither the
\* session records (status, end timestamp), the active map nor the monitored
\* meetings.
C9_StopEndedNoOp ==
    [][\A sid \in DOMAIN db_sessions :
          (Status(sid) = "ended" /\ stop_session(sid)) =>
              /\ raised' = None
              /\ UNCHANGED <<db_sessions, active_sessions, active_participants>>]_vars

\* C10: start_session and stop_session with an id that no session has raise
\* the not-found ValueError and change neither the session records, the active
\* map nor the monitored meetings.
C10_UnknownSessionRaises ==
    [][\A sid \in SessionIds \ DOMAIN db_sessions :
          /\ \A st \in SUBSET StudentIds :
                start_session(sid, st) =>
                    /\ raised' = "ValueError"
                    /\ UNCHANGED <<db_sessions, active_sessions, active_participants>>
          /\ stop_session(sid) =>
                /\ raised' = "ValueError"
                /\ UNCHANGED <<db_sessions, active_sessions, active_participants>>]_vars

\* C10 witness: a call raised the ValueError while session 2 did not exist and
\* session 1 was being monitored
C10_Witness ==
    /\ raised = "ValueError"
    /\ DOMAIN db_sessions = {1}
    /\ Keys(active_sessions) = {1}
    /\ DOMAIN active_participants = {"m1"}

RosterOf(session_id) ==
    active_sessions[Lookup(active_sessions, session_id)].student_ids

\* C11: a refresh of an ACTIVE session that has a meeting reference, whose
\* roster fetch returns, leaves as the session's roster exactly the student ids
\* the roster source returned (the mapped ones of the fetched usernames; none
\* when the request failed): ids of the previous roster that are not among
\* them are gone.
C11_RefreshReplacesRoster ==
    [][\A sid \in DOMAIN db_sessions, f \in {"ok", "request_error"},
          us \in SUBSET Usernames :
          (/\ Status(sid) = "active"
           /\ db_sessions[sid].zoom_meeting_id # None
           /\ update_session_students(sid, f, us)) =>
              LET fetched == IF f = "ok" THEN us ELSE {}
                  returned == {student_mapping[u] : u \in fetched \cap DOMAIN student_mapping}
              IN  /\ sid \in Keys(active_sessions')
                  /\ active_sessions'[Lookup(active_sessions', sid)].student_ids = returned
                  /\ \A s \in RosterOf(sid) \ returned :
                        s \notin active_sessions'[Lookup(active_sessions', sid)].student_ids]_vars

\* C11 witness: the only session is ACTIVE, its meeting's recorded participants
\* are the refresh's {"u2"} (start_session records none), and its roster is the
\* lone mapped id 2
C11_Witness ==
    /\ DOMAIN db_sessions = {1}
    /\ Status(1) = "active"
    /\ student_mapping = KnownMapping
    /\ active_participants = ("m1" :> {"u2"})
    /\ Keys(active_sessions) = {1}
    /\ RosterOf(1) = {2}

\* ------------------------------------------------ registry properties
\* the channel is registered with the registry and not yet disconnected from it
Registered(websocket, registry) == websockets[websocket].registry = registry

\* send_json on the channel raises: its client is gone
SendFails(websocket) == websockets[websocket].pc # "connected"

\* C12: in both registries, disconnect of a channel that was never registered
\* with the registry, or was already disconnected from it, raises nothing and
\* changes neither the owner -> channels map nor the channel -> owner map.
C12_DisconnectIdempotent ==
    [][\A w \in Channels :
          /\ (~Registered(w, "instructor") /\ instructor_disconnect(w)) =>
                (ws_raised' = None /\ UNCHANGED instructor_ws_vars)
          /\ (~Registered(w, "student") /\ student_disconnect(w)) =>
                (ws_raised' = None /\ UNCHANGED student_ws_vars)]_vars

\* C12 witness: a disconnect was the last call and returned, while no channel
\* was ever accepted (so it was a disconnect of a never registered channel) and
\* both registries are empty
C12_Witness ==
    /\ ws_call = "disconnect"
    /\ ws_raised = None
    /\ \A w \in Channels : websockets[w] = NewChannel
    /\ instructor_sessions = <<>> /\ student_sessions = <<>>

\* C13: in both registries, once disconnect(channel) has returned, no owner's
\* connection set holds the channel and the channel -> owner map has no entry
\* for it, whatever the owner id (0 included).
C13_DisconnectRemovesEverywhere ==
    [][\A w \in Channels :
          /\ instructor_disconnect(w) =>
                /\ \A i \in DOMAIN instructor_active_connections' :
                      w \notin instructor_active_connections'[i]
                /\ w \notin DOMAIN instructor_sessions'
          /\ student_disconnect(w) =>
                /\ \A s \in DOMAIN student_active_connections' :
                      w \notin student_active_connections'[s]
                /\ \A i \in 1..Len(student_sessions') :
                      student_sessions'[i].websocket # w]_vars

\* the registered, not yet disconnected channels of an instructor
InstructorChannels(instructor_id) ==
    {w \in Channels : Registered(w, "instructor") /\ websockets[w].owner = instructor_id}

\* the registered, not yet disconnected channels of a student in a session
StudentChannels(session_id, student_id) ==
    {w \in Channels : /\ Registered(w, "student")
                      /\ websockets[w].owner = student_id
                      /\ websockets[w].session_id = session_id}

\* C14: when a send to an owner fails on one of the owner's channels, the send
\* is attempted on every other channel of that owner too, and the send raises
\* nothing, in the instructor registry (both update sends) and in the student
\* registry.
C14_SendIsolation ==
    [][/\ \A i \in InstructorIds :
            (/\ send_dashboard_update(i) \/ send_engagement_update(i)
             /\ \E w \in InstructorChannels(i) \cap send_json_calls' : SendFails(w)) =>
                (InstructorChannels(i) \subseteq send_json_calls' /\ ws_raised' = None)
       /\ \A sid \in SessionIds, s \in StudentIds :
            (/\ send_question_to_student(sid, s)
             /\ \E w \in StudentChannels(sid, s) \cap send_json_calls' : SendFails(w)) =>
                (StudentChannels(sid, s) \subseteq send_json_calls' /\ ws_raised' = None)]_vars

\* C15: a send to an owner that holds several registered channels is attempted
\* on every one of them, in the instructor registry and in the student registry.
C15_MultiConnectionFanOut ==
    [][/\ \A i \in InstructorIds :
            (send_dashboard_update(i) \/ send_engagement_update(i)) =>
                InstructorChannels(i) \subseteq send_json_calls'
       /\ \A sid \in SessionIds, s \in StudentIds :
            send_question_to_student(sid, s) =>
                StudentChannels(sid, s) \subseteq send_json_calls']_vars

\* C16: a send to a student that has no registered channel in the session
\* (never connected, all channels disconnected, or a session without
\* connections) raises nothing, calls no send_json and changes no registry
\* state; in a push to several students it does not keep the students that do
\* have a channel in the session from getting a send attempt.
C16_NoConnectionTolerated ==
    [][/\ \A sid \in SessionIds, s \in StudentIds :
            (StudentChannels(sid, s) = {} /\ send_question_to_student(sid, s)) =>
                /\ ws_raised' = None
                /\ send_json_calls' = {}
                /\ UNCHANGED <<websockets, instructor_ws_vars, student_ws_vars>>
       /\ \A sid \in SessionIds, st \in SUBSET StudentIds :
            (/\ \E s \in st : StudentChannels(sid, s) = {}
             /\ send_question_to_multiple_students(sid, st)) =>
                /\ ws_raised' = None
                /\ UNCHANGED <<websockets, instructor_ws_vars, student_ws_vars>>
                /\ \A t \in st :
                      StudentChannels(sid, t) # {} =>
                          StudentChannels(sid, t) \cap send_json_calls' # {}]_vars

\* C16 witness: the last call was a push to students 1 and 2 of session 1 and
\* returned; student 1's channel w1 was disconnected and its other channel w3
\* is in session 2, and student 2's channel w2 of session 1 got the send
C16_Witness ==
    /\ ws_call = "send_question_to_multiple_students"
    /\ ws_raised = None
    /\ websockets["w1"] = DisconnectedChannel
    /\ StudentChannels(1, 1) = {}
    /\ StudentChannels(2, 1) = {"w3"}
    /\ StudentChannels(1, 2) = {"w2"}
    /\ send_json_calls = {"w2"}

\* C17: whenever the push callback is called with a non-empty delivery set for
\* a session, every student of the set that has a registered channel in that
\* session gets a send attempt on one of its channels in that call.
C17_DispatchSends ==
    [][\A sid \in SessionIds, st \in (SUBSET StudentIds) \ {{}} :
          lifespan_question_push_callback(sid, st) =>
              \A s \in st :
                  StudentChannels(sid, s) # {} =>
                      StudentChannels(sid, s) \cap send_json_calls' # {}]_vars

\* C18: get_connected_students(session) is exactly the set of students that
\* have at least one registered, not yet disconnected channel in that session;
\* a student connected to another session only is not in it.
C18_ConnectedStudentsExact ==
    \A sid \in SessionIds :
        get_connected_students(student_active_connections, student_sessions, sid)
            = {s \in StudentIds : StudentChannels(sid, s) # {}}

\* C18 witness: channel w1 was disconnected, student 1 still has channel w2 in
\* session 1 and is reported there; student 2 is connected to session 2 only
\* and is reported for session 2, not for session 1
C18_Witness ==
    /\ websockets["w1"] = DisconnectedChannel
    /\ StudentChannels(1, 1) = {"w2"}
    /\ StudentChannels(2, 2) = {"w3"}
    /\ get_connected_students(student_active_connections, student_sessions, 1) = {1}
    /\ get_connected_students(student_active_connections, student_sessions, 2) = {2}

\* ----------------------------------------------- classifier properties
\* C19: the rules: ACTIVE iff the response time is below 4000 ms and the
\* answer is correct; PASSIVE iff it is above 7000 ms or the answer is wrong;
\* MODERATE otherwise; 4000 ms correct and 7000 ms correct are MODERATE.
C19_ClassifierRules ==
    classified # <<>> =>
        LET r == classified[1].response_time_ms
            c == classified[1].is_correct
            level == classified[1].outcome.level
        IN  /\ level \in EngagementLevel
            /\ level = "active" <=> (r < 4000 /\ c)
            /\ level = "passive" <=> (r > 7000 \/ ~c)
            /\ level = "moderate" <=> (~(r < 4000 /\ c) /\ ~(r > 7000 \/ ~c))
            /\ (r = 4000 /\ c) => level = "moderate"
            /\ (r = 7000 /\ c) => level = "moderate"

\* C19 witness: a correct answer after exactly 4000 ms was classified MODERATE
C19_Witness ==
    /\ classified # <<>>
    /\ classified[1].response_time_ms = 4000
    /\ classified[1].is_correct
    /\ classified[1].outcome.level = "moderate"

\* C20: in every configuration of the classifier (use_ml or not, model path
\* given or not, model loaded or not) classify raises nothing and returns a
\* tier, and whenever the model is not loaded the tier is the rules' tier.
C20_ClassifyTotal ==
    classified # <<>> =>
        LET call == classified[1]
            loaded == ml_model # <<>> /\ ml_model[1].is_loaded
        IN  /\ call.outcome.raised = None
            /\ call.outcome.level \in EngagementLevel
            /\ ~loaded =>
                  call.outcome.level =
                      classify_with_rules(call.response_time_ms, call.is_correct)

\* C20 witness: a classifier built with use_ml and a model path, whose model
\* is not loaded, classified a call without additional context as the rules do
C20_Witness ==
    /\ use_ml
    /\ ml_model # <<>>
    /\ ~ml_model[1].is_loaded
    /\ classified # <<>>
    /\ classified[1].additional_context = <<>>
    /\ classified[1].response_time_ms = 3999
    /\ classified[1].is_correct
    /\ classified[1].outcome = [raised |-> None, level |-> "active"]

\* ---------------------------------------------------- store properties
\* the tier of the pair's event that was recorded last (highest id)
LatestTier(student_id, session_id) ==
    LET mine == LogsOf(engagement_logs, student_id, session_id)
    IN  engagement_logs[CHOOSE i \in mine : \A j \in mine : j <= i].engagement_level

\* C21: get_current_engagement returns None when the (student, session) pair
\* has no event, and otherwise the tier of the pair's most recently recorded
\* event, whatever events other students or other sessions have.
C21_CurrentTierIsLatest ==
    [][\A s \in StudentIds, sid \in SessionIds :
          get_current_engagement(s, sid) =>
              query_result'[1].engagement_level =
                  IF LogsOf(engagement_logs, s, sid) = {} THEN None
                  ELSE LatestTier(s, sid)]_vars

\* the pair's events that carry the pair's greatest timestamp
TiedLatest(student_id, session_id) ==
    LET mine == LogsOf(engagement_logs, student_id, session_id)
    IN  {i \in mine : \A j \in mine :
            engagement_logs[j].timestamp <= engagement_logs[i].timestamp}

\* C22: when several events of a pair carry the same, latest timestamp, the
\* current tier is the tier of the one inserted last among them, so the query
\* has one possible result for a given log.
C22_TieBrokenByInsertion ==
    \A s \in StudentIds, sid \in SessionIds :
        Cardinality(TiedLatest(s, sid)) > 1 =>
            current_engagement_results(engagement_logs, s, sid) =
                {engagement_logs[CHOOSE i \in TiedLatest(s, sid) :
                                    \A j \in TiedLatest(s, sid) : j <= i].engagement_level}

\* the students that have an event in the session and whose latest tier is tier
StudentsAt(session_id, tier) ==
    {s \in StudentIds : /\ LogsOf(engagement_logs, s, session_id) # {}
                        /\ LatestTier(s, session_id) = tier}

\* C23: get_session_engagement_stats counts every student that has an event in
\* the session once, under the tier of the student's most recently recorded
\* event, and the three tier counts sum to total_students.
C23_StatsByLatestTier ==
    [][\A sid \in SessionIds :
          get_session_engagement_stats(sid) =>
              LET stats == query_result'[1].stats[1]
              IN  /\ stats.active_students = Cardinality(StudentsAt(sid, "active"))
                  /\ stats.moderate_students = Cardinality(StudentsAt(sid, "moderate"))
                  /\ stats.passive_students = Cardinality(StudentsAt(sid, "passive"))
                  /\ stats.total_students =
                        stats.active_students + stats.moderate_students
                            + stats.passive_students]_vars

\* C24: the engagement log is append-only: every step keeps every recorded
\* event in place with its student, session, tier and timestamp, and the two
\* queries leave the log as it is.
C24_LogAppendOnly ==
    [][/\ Len(engagement_logs') >= Len(engagement_logs)
       /\ \A i \in 1..Len(engagement_logs) : engagement_logs'[i] = engagement_logs[i]
       /\ \A s \in StudentIds, sid \in SessionIds :
             (get_current_engagement(s, sid) \/ get_session_engagement_stats(sid)) =>
                 UNCHANGED engagement_logs]_vars

\* C24 witness: student 1 has two events in session 1, the earlier PASSIVE one
\* still first and unchanged after a later ACTIVE one was recorded at clock 1,
\* and the last query was a summary query
C24_Witness ==
    /\ Len(engagement_logs) = 2
    /\ engagement_logs[1] = [student_id |-> 1, session_id |-> 1,
                             engagement_level |-> "passive", timestamp |-> 0]
    /\ engagement_logs[2] = [student_id |-> 1, session_id |-> 1,
                             engagement_level |-> "active", timestamp |-> 1]
    /\ query_result # <<>>
    /\ query_result[1].query = "get_session_engagement_stats"

\* the student's only event in the session has the given tier
OnlyEvent(student_id, session_id, tier) ==
    LET mine == LogsOf(engagement_logs, student_id, session_id)
    IN  /\ Cardinality(mine) = 1
        /\ \A i \in mine : engagement_logs[i].engagement_level = tier

\* what the evaluation step hands to the push callback ({} when it makes no call)
Dispatched ==
    IF Len(push_calls') > Len(push_calls)
    THEN push_calls'[Len(push_calls')].student_ids
    ELSE {}

\* C25: a tick that evaluates a session with roster {S1, S2} dispatches
\* {S1, S2} for it when neither student has an event in the session, and {S2}
\* alone once S1's event is ACTIVE and S2's event is PASSIVE; a tick that
\* starts after a session was stopped does not have the session in its list,
\* and every dispatch of a tick is for a session of its list.
C25_Scenario ==
    [][/\ (Evaluates /\ snapshot[idx].student_ids = {1, 2}) =>
            LET sid == snapshot[idx].session_id
            IN  /\ (\A s \in {1, 2} : LogsOf(engagement_logs, s, sid) = {}) =>
                      /\ Dispatched = {1, 2}
                      /\ push_calls'[Len(push_calls')].session_id = sid
                /\ (OnlyEvent(1, sid, "active") /\ OnlyEvent(2, sid, "passive")) =>
                      /\ Dispatched = {2}
                      /\ push_calls'[Len(push_calls')].session_id = sid
       /\ TickStarts =>
            /\ tick_pc' = IF active_sessions = <<>> THEN "done" ELSE "eval"
            /\ \A i \in 1..Len(snapshot') : snapshot'[i].session_id \notin Ended
       /\ \A i \in 1..Len(push_calls') :
            \E j \in 1..Len(snapshot') :
                snapshot'[j].session_id = push_calls'[i].session_id
    ]_vars

\* C25 witness: with one ACTIVE event of student 1 and one PASSIVE event of
\* student 2 in session 1, a tick over session 1 with roster {1, 2} has
\* dispatched {2} for it, and nothing else
C25_Witness ==
    /\ OnlyEvent(1, 1, "active")
    /\ OnlyEvent(2, 1, "passive")
    /\ Len(snapshot) = 1
    /\ snapshot[1] = [session_id |-> 1, student_ids |-> {1, 2}]
    /\ Len(evaluated) = 1
    /\ push_calls = <<[session_id |-> 1, student_ids |-> {2}]>>
    /\ tick_pc = "done"
    /\ tick_error = None

\* C26: at the end of every tick, every student of a roster of the tick's list
\* who has no event in the session is in the set handed to the push callback
\* for that session, whatever other sessions are in the list (the session
\* whose own evaluation or dispatch raised is left out).
C26_ColdStart ==
    tick_pc = "done" =>
        \A i \in 1..Len(snapshot) :
            (tick_error = None \/ i # idx) =>
                \A s \in snapshot[i].student_ids :
                    LogsOf(engagement_logs, s, snapshot[i].session_id) = {} =>
                        \E c \in 1..Len(push_calls) :
                            /\ push_calls[c].session_id = snapshot[i].session_id
                            /\ s \in push_calls[c].student_ids

\* C27: the engine is never running without both of its collaborators wired:
\* start fails when the db session factory or the push callback is not set.
C27_StartNeedsCollaborators ==
    running => (db_session_factory /\ question_push_callback)

\* C28: start_session on a session that is ACTIVE raises nothing, leaves the
\* session ACTIVE and leaves as its roster exactly the given students, whatever
\* roster the session had.
C28_RestartReplacesRoster ==
    [][\A sid \in DOMAIN db_sessions, st \in SUBSET StudentIds :
          (Status(sid) = "active" /\ start_session(sid, st)) =>
              /\ raised' = None
              /\ db_sessions'[sid].status = "active"
              /\ sid \in Keys(active_sessions')
              /\ active_sessions'[Lookup(active_sessions', sid)].student_ids = st
              /\ Len(active_sessions') = Len(active_sessions)]_vars

\* C28 witness: the only session, which has no meeting whose participants
\* could refresh its roster, was ACTIVE when start_session was last called, is
\* ACTIVE and has the roster {2}
C28_Witness ==
    /\ restarted
    /\ raised = None
    /\ Len(db_sessions) = 1
    /\ db_sessions[1].zoom_meeting_id = None
    /\ Status(1) = "active"
    /\ Keys(active_sessions) = {1}
    /\ RosterOf(1) = {2}

\* C30: a roster refresh whose participant fetch fails (the token cannot be
\* obtained, or the request errors) is abandoned: the monitor's active map, and
\* so every session's roster, is as it was before the refresh.
C30_FailedRefreshKeepsRoster ==
    [][\A sid \in SessionIds, us \in SUBSET Usernames :
          (\/ update_session_students(sid, "request_error", us)
           \/ update_session_students(sid, "token_error", us)) =>
              UNCHANGED active_sessions]_vars

\* C29: a tick suspended in the push callback of one session, with sessions of
\* its list still to come, goes on to evaluate the next session of the list
\* unless the callback comes back first: the other sessions do not wait for a
\* callback that stays suspended.
C29_DispatchIndependence ==
    \A i \in 1..Cardinality(SessionIds) :
        (tick_pc = "await" /\ idx = i /\ Len(snapshot) > i)
            ~> (tick_pc # "await" \/ idx # i \/ Len(evaluated) > i)

\* the last call of the push callback in this tick was for this session with
\* this delivery set
LastPush(session_id, student_ids) ==
    /\ push_calls # <<>>
    /\ push_calls[Len(push_calls)] =
          [session_id |-> session_id, student_ids |-> student_ids]

\* C31: when the dispatch of a delivery set for a session has failed in a
\* tick, then, unless the session leaves the active map, its roster changes or
\* its own store read fails, a later tick hands the same delivery set for the
\* session to the push callback again.
C31_RetriedOnNextTick ==
    \A sid \in SessionIds, roster \in Rosters :
        \A due \in SUBSET roster :
            (/\ tick_pc = "done"
             /\ tick_error = "callback_error"
             /\ snapshot[idx] = [session_id |-> sid, student_ids |-> roster]
             /\ LastPush(sid, due))
                ~> (\/ tick_pc = "await" /\ LastPush(sid, due)
                    \/ sid \notin Keys(active_sessions)
                    \/ RosterOf(sid) # roster
                    \/ tick_error = "store_error" /\ snapshot[idx].session_id = sid)

\* a step of a tick: the coroutine starts, moves on or returns
TickStep == tick_pc' # tick_pc \/ idx' # idx

ResponsesOf(student_id, session_id) ==
    {i \in 1..Len(responses) :
        responses[i].student_id = student_id /\ responses[i].session_id = session_id}

\* C33: for every student and session, the engagement events that response
\* submission created are as many as the stored responses.
C33_OneEventPerResponse ==
    \A s \in StudentIds, sid \in SessionIds :
        Cardinality(LogsOf(engagement_logs, s, sid)) =
            Cardinality(ResponsesOf(s, sid))

\* C34: a roster refresh never adds a session to the active map nor removes
\* one; a refresh of a session that is not in the map (PENDING, ENDED or
\* unknown), whatever the fetch returns, leaves the map as it is.
C34_RefreshNeverRegisters ==
    [][\A sid \in SessionIds, f \in FetchOutcomes, us \in SUBSET Usernames :
          update_session_students(sid, f, us) =>
              /\ Keys(active_sessions') = Keys(active_sessions)
              /\ sid \notin Keys(active_sessions) => UNCHANGED active_sessions]_vars

\* C34 witness: session 1 was stopped and is not in the map; session 2, on the
\* same meeting, is ACTIVE with the roster {1} it was started with. A refresh
\* of session 1 has fetched the participant u2 (student 2) for the meeting:
\* session 1 is still not in the map and session 2's roster is as it was.
C34_Witness ==
    /\ DOMAIN db_sessions = {1, 2}
    /\ Status(1) = "ended"
    /\ Status(2) = "active"
    /\ db_sessions[1].zoom_meeting_id = "m1"
    /\ student_mapping = KnownMapping
    /\ active_participants = ("m1" :> {"u2"})
    /\ Keys(active_sessions) = {2}
    /\ RosterOf(2) = {1}

\* the owner keys under whose connection set the channel is
InstructorSetsOf(websocket) ==
    {i \in DOMAIN instructor_active_connections :
        websocket \in instructor_active_connections[i]}

StudentSetsOf(websocket) ==
    {sid \in DOMAIN student_active_connections :
        websocket \in student_active_connections[sid]}

\* the channel has exactly one entry in student_sessions
StudentEntry(websocket) ==
    Cardinality({i \in 1..Len(student_sessions) :
                    student_sessions[i].websocket = websocket}) = 1

StudentMapsConsistent ==
    \A w \in Channels :
        /\ Cardinality(StudentSetsOf(w)) <= 1
        /\ (\E i \in 1..Len(student_sessions) : student_sessions[i].websocket = w)
              <=> Cardinality(StudentSetsOf(w)) = 1
        /\ Cardinality(StudentSetsOf(w)) = 1 => StudentEntry(w)

\* C35: in each registry a channel has an entry in the channel-to-owner map
\* iff it is in exactly one owner-keyed connection set; on the instructor side
\* that set is the one of the owner the map names.
C35_RegistryMapsConsistent ==
    /\ StudentMapsConsistent
    /\ \A w \in Channels :
          /\ w \in DOMAIN instructor_sessions
                <=> Cardinality(InstructorSetsOf(w)) = 1
          /\ w \in DOMAIN instructor_sessions =>
                InstructorSetsOf(w) = {instructor_sessions[w]}

\* C36: every channel send_question_to_student(session, student) calls
\* send_json on was registered by a student connect with that session id and
\* that student id, and is still registered.
C36_SendScopedToSession ==
    [][\A sid \in SessionIds, s \in StudentIds :
          send_question_to_student(sid, s) =>
              \A w \in send_json_calls' :
                  /\ Registered(w, "student")
                  /\ websockets[w].owner = s
                  /\ websockets[w].session_id = sid
                  /\ w \in student_active_connections[sid]]_vars

\* C36 witness: student 1 connected w2 to session 2 and then w1 to session 1,
\* student 2 connected w3 to session 1; the send of a question to student 1 in
\* session 1 called send_json on w1 alone
C36_Witness ==
    /\ ws_call = "send_question_to_student"
    /\ send_json_calls = {"w1"}
    /\ Len(student_sessions) = 3
    /\ student_sessions[1] = [websocket |-> "w2", student_id |-> 1]
    /\ websockets["w1"].owner = 1 /\ websockets["w1"].session_id = 1
    /\ websockets["w2"].owner = 1 /\ websockets["w2"].session_id = 2
    /\ websockets["w3"].owner = 2 /\ websockets["w3"].session_id = 1
    /\ \A w \in Channels : Registered(w, "student")

\* the external-roster monitoring state of a session: <<>> when its meeting is
\* not monitored (or it has none), else the participants recorded for it
MonitoringOf(ap, session) ==
    IF session.zoom_meeting_id \in DOMAIN ap
    THEN <<ap[session.zoom_meeting_id]>>
    ELSE <<>>

\* C37: stop_session(A) leaves every other session B as it was: B's record
\* (status, end time), B's place and roster in the active map and, for an
\* ACTIVE B, the monitoring state of B's meeting, also when A has the same
\* meeting.
C37_StopLeavesOthers ==
    [][\A a \in DOMAIN db_sessions, b \in DOMAIN db_sessions :
          (a # b /\ stop_session(a)) =>
              /\ db_sessions'[b] = db_sessions[b]
              /\ b \in Keys(active_sessions') <=> b \in Keys(active_sessions)
              /\ b \in Keys(active_sessions) =>
                    active_sessions'[Lookup(active_sessions', b)].student_ids = RosterOf(b)
              /\ Status(b) = "active" =>
                    MonitoringOf(active_participants', db_sessions[b]) =
                        MonitoringOf(active_participants, db_sessions[b])]_vars

\* C38: the monitor holds an open database session exactly while a tick is
\* inside its try block: a tick that has ended (normally, by a store read
\* error, by a push-callback error or by cancellation) has closed it, between
\* ticks none is open, and a tick on an engine that is not initialized opens
\* none.
C38_DbSessionClosed ==
    [][/\ db_open' <=> tick_pc' \in {"eval", "await"}
       /\ (TickStart /\ (~db_session_factory \/ ~question_push_callback)) =>
             (~db_open' /\ tick_pc' = "idle")]_vars

\* C38 witness: a tick whose push callback raised has ended, and its database
\* session is closed
C38_Witness ==
    /\ tick_pc = "done"
    /\ tick_error = "callback_error"
    /\ Len(push_calls) = 1
    /\ ~db_open

====
